---- MODULE Spec2Model ----
(***************************************************************************)
(* Table Read server: the in-memory room registry, the per-socket session  *)
(* data and the pending auto-advance timers, with one action per socket.io *)
(* event handler and one for a timer callback.                             *)
(*                                                                         *)
(* Strings that the code trims or compares (display names) are tuples of   *)
(* one-character strings.  JS null / undefined / an inherited property of  *)
(* Object.prototype are the one-element tuples Null / Undefined / ProtoFn, *)
(* which no name over the alphabet can equal.                              *)
(***************************************************************************)
EXTENDS Integers, Sequences, FiniteSets, TLC

\* ------------------------------------------------------------ bounds
MaxPlayers == 1      \* longest player list explored
MaxTimers == 2       \* most pending setTimeout callbacks explored

Conns == {1, 2}

\* ------------------------------------------------------------ JS values
Null == <<"null">>
Undefined == <<"undefined">>
ProtoFn == <<"function">>

\* a value in a boolean context
Truthy(v) == v # Null /\ v # Undefined /\ v # <<>>

RECURSIVE TrimStart(_)
TrimStart(s) == IF s # <<>> /\ Head(s) = " " THEN TrimStart(Tail(s)) ELSE s

RECURSIVE TrimEnd(_)
TrimEnd(s) == IF s # <<>> /\ s[Len(s)] = " " THEN TrimEnd(SubSeq(s, 1, Len(s) - 1)) ELSE s

\* (name || '').trim()
TrimmedName(name) == IF Truthy(name) THEN TrimEnd(TrimStart(name)) ELSE <<>>

\* ------------------------------------------------------------ catalogue
Direction == [type |-> "direction", character |-> "-"]
Dialogue(c) == [type |-> "dialogue", character |-> c]

\* the prepared scripts, in catalogue order (JS index 0, 1)
preparedScripts ==
    << [title |-> "S0", characters |-> <<"Lead", "Side">>,
        beats |-> <<Direction, Dialogue("Lead")>>],
       [title |-> "S1", characters |-> <<"Solo">>,
        beats |-> <<>>] >>

\* a selection that ignores the index
SelectScriptFirst(scriptIndex) == 0

\* preparedScripts[scriptIndex] || preparedScripts[0]; the room keeps the index
SelectScript(scriptIndex) ==
    IF scriptIndex \in 0..(Len(preparedScripts) - 1) THEN scriptIndex ELSE 0

ScriptOf(room) == preparedScripts[room.script + 1]
Beats(room) == ScriptOf(room).beats

\* property names every plain object inherits from Object.prototype
ProtoKeys == {"constructor"}

\* ------------------------------------------------------------ inputs
NameInputs == {<<" ">>, <<" ", "a">>, <<"b", " ">>}
Names == {<<"a">>, <<"b">>}
ScriptInputs == {0, 1, 2}
CharInputs == {"Lead", "Side", "Solo", "Nobody"}
TargetInputs == {Null, <<"a">>, <<"b">>}
KeyInputs == {"Lead", "constructor"}
CastInputs == {"Lead", "Side"}
\* every code generateCode can return; a generator with one code
CodeUniverse == {"A", "B"}
OneCode == {"A"}

\* ------------------------------------------------------------ state
VARIABLES
    rooms,      \* the registry: code -> room record, or NoRoom
    sock,       \* per connection: status and socket.data {code, role, name}
    timers,     \* pending auto-advance callbacks {code, beatIndex}, in the order they
                \* were set; setFor (history) is the host of the room that set it,
                \* stale (history) tells that the room has left the beat since
    out,        \* what the last handler emitted, in order
    lastOp,     \* the request the last handler served; seq alternates so that
                \* a request that changes nothing is still a step
    crashed     \* an exception escaped a handler

vars == <<rooms, sock, timers, out, lastOp, crashed>>

\* the codes generateCode may return: those the registry was set up with
Codes == DOMAIN rooms

NoRoom == [state |-> "none"]
\* socket.data before create-room or join-room sets it
NoCode == "undefined"
NoRole == "undefined"
NoData == [status |-> "new", code |-> NoCode, role |-> NoRole, name |-> Undefined]

HasRoom(code) == code \in Codes /\ rooms[code] # NoRoom

\* ------------------------------------------------------------ helpers
\* character in room.assignments
CharIn(character, assignments) ==
    character \in DOMAIN assignments \/ character \in ProtoKeys

\* room.assignments[character]
Asg(assignments, character) ==
    IF character \in DOMAIN assignments THEN assignments[character]
    ELSE IF character \in ProtoKeys THEN ProtoFn
    ELSE Undefined

\* room.assignments[character] = value
SetAsg(assignments, character, value) ==
    [c \in (DOMAIN assignments) \cup {character} |->
        IF c = character THEN value ELSE assignments[c]]

Range(s) == {s[i] : i \in DOMAIN s}

\* a cast check that passes any room
AllCharactersAssignedAlways(room) == TRUE

AllCharactersAssigned(room) ==
    \A c \in Range(ScriptOf(room).characters) : Truthy(Asg(room.assignments, c))

\* a handler works on the registry, the timers and what it has emitted so far
Mem(r, t, o, x) == [rooms |-> r, timers |-> t, out |-> o, crashed |-> x]

Emit(m, e) == [m EXCEPT !.out = Append(@, e)]

BroadcastPlayerList(m, code) ==
    IF m.rooms[code] = NoRoom THEN m
    ELSE Emit(m, [ev |-> "player-list", code |-> code,
                  list |-> <<m.rooms[code].hostName>> \o
                           [i \in DOMAIN m.rooms[code].players |->
                               m.rooms[code].players[i].name]])

BroadcastAssignments(m, code) ==
    IF m.rooms[code] = NoRoom THEN m
    ELSE Emit(Emit(m, [ev |-> "assignments", code |-> code,
                       assignments |-> m.rooms[code].assignments]),
              [ev |-> "casting-complete", code |-> code,
               complete |-> AllCharactersAssigned(m.rooms[code])])

TimerGuardNever(m, t) == FALSE

\* the guard of the setTimeout callback
TimerGuard(m, t) ==
    /\ m.rooms[t.code] # NoRoom
    /\ m.rooms[t.code].currentBeat = t.beatIndex
    /\ m.rooms[t.code].state = "performance"

\* a beat that names nobody
ActivePlayerNobody(room, beat) == Null

\* let activePlayer = null; if dialogue: room.assignments[beat.character] || null
ActivePlayer(room, beat) ==
    IF beat.type = "dialogue" /\ Truthy(Asg(room.assignments, beat.character))
    THEN Asg(room.assignments, beat.character) ELSE Null

SendCurrentBeat(m, code) ==
    LET room == m.rooms[code] IN
    IF room = NoRoom \/ room.state # "performance" THEN m
    ELSE IF room.currentBeat >= Len(Beats(room))
         THEN [m EXCEPT !.crashed = TRUE]   \* beat is undefined: beat.type throws
    ELSE LET beat == Beats(room)[room.currentBeat + 1]
             activePlayer == ActivePlayer(room, beat)
             sent == Emit(m, [ev |-> "beat", code |-> code,
                              index |-> room.currentBeat,
                              total |-> Len(Beats(room)),
                              beat |-> beat,
                              activePlayer |-> activePlayer])
         IN IF beat.type # "dialogue"
            THEN [sent EXCEPT !.timers =
                     Append(@, [code |-> code, beatIndex |-> room.currentBeat,
                                setFor |-> room.hostId, stale |-> FALSE])]
            ELSE sent

AdvanceBeat(m, code) ==
    LET room == m.rooms[code] IN
    IF room = NoRoom \/ room.state # "performance" THEN m
    ELSE LET inc == [m EXCEPT !.rooms[code].currentBeat = room.currentBeat + 1] IN
         IF inc.rooms[code].currentBeat >= Len(Beats(room))
         THEN Emit([inc EXCEPT !.rooms[code].state = "ended"],
                   [ev |-> "performance-ended", code |-> code])
         ELSE SendCurrentBeat(inc, code)

\* ------------------------------------------------------------ requests
Op(op, conn) ==
    [op |-> op, conn |-> conn, character |-> "-", name |-> Undefined,
     toPlayer |-> Undefined, scriptIndex |-> -1, seq |-> 1 - lastOp.seq]

Live(s) == ~crashed /\ sock[s].status = "connected"

Start == Mem(rooms, timers, <<>>, FALSE)

\* history: the pending timers whose room was on their beat when the handler
\* started and is not when it ends are out of date from now on
RECURSIVE MarkStale(_, _)
MarkStale(m, ts) ==
    IF ts = <<>> THEN <<>>
    ELSE <<[Head(ts) EXCEPT !.stale =
               @ \/ (TimerGuard(Start, Head(ts)) /\ ~TimerGuard(m, Head(ts)))]>>
         \o MarkStale(m, Tail(ts))

\* what a handler leaves behind; a handler that would overfill the explored
\* timer queue is not explored
Commit(m) ==
    /\ Len(m.timers) <= MaxTimers
    /\ rooms' = m.rooms
    /\ timers' = MarkStale(m, m.timers)
    /\ out' = m.out
    /\ crashed' = m.crashed


\* ------------------------------------------------------------ connection
Connect(s) ==
    /\ ~crashed
    /\ sock[s].status = "new"
    /\ \A r \in Conns : r < s => sock[r].status # "new"
    /\ sock' = [sock EXCEPT ![s].status = "connected"]
    /\ out' = <<>>
    /\ lastOp' = Op("connection", s)
    /\ UNCHANGED <<rooms, timers, crashed>>

\* ------------------------------------------------------------ create-room
NewRoom(s, trimmedName, script) ==
    [hostId |-> s, hostName |-> trimmedName, players |-> <<>>,
     script |-> script,
     assignments |-> [c \in Range(preparedScripts[script + 1].characters) |-> Null],
     state |-> "lobby", currentBeat |-> 0]

\* makeUniqueCode: any code that is not in the registry
FreeCodes == {c \in Codes : rooms[c] = NoRoom}

CreateRoom(s, name, scriptIndex) ==
    /\ Live(s)
    /\ lastOp' = [Op("create-room", s) EXCEPT !.name = name,
                                              !.scriptIndex = scriptIndex]
    /\ LET trimmedName == TrimmedName(name) IN
       IF ~Truthy(trimmedName)
       THEN /\ Commit(Emit(Start, [ev |-> "callback", to |-> s, error |-> "name"]))
            /\ UNCHANGED sock
       ELSE \E code \in FreeCodes :
            /\ Commit(Emit([Start EXCEPT !.rooms[code] =
                                NewRoom(s, trimmedName, SelectScript(scriptIndex))],
                           [ev |-> "callback", to |-> s, code |-> code]))
            /\ sock' = [sock EXCEPT ![s].code = code, ![s].role = "host",
                                    ![s].name = trimmedName]

\* ------------------------------------------------------------ join-room
JoinRefused(room) == room.state = "performance"

JoinRoom(s, code, name) ==
    /\ Live(s)
    /\ lastOp' = Op("join-room", s)
    /\ LET trimmedName == TrimmedName(name) IN
       IF rooms[code] = NoRoom
       THEN /\ Commit(Emit(Start, [ev |-> "callback", to |-> s, error |-> "not-found"]))
            /\ UNCHANGED sock
       ELSE IF JoinRefused(rooms[code])
       THEN /\ Commit(Emit(Start, [ev |-> "callback", to |-> s, error |-> "started"]))
            /\ UNCHANGED sock
       ELSE IF ~Truthy(trimmedName)
       THEN /\ Commit(Emit(Start, [ev |-> "callback", to |-> s, error |-> "name"]))
            /\ UNCHANGED sock
       ELSE /\ Len(rooms[code].players) < MaxPlayers
            /\ LET pushed == [Start EXCEPT !.rooms[code].players =
                                  Append(@, [id |-> s, name |-> trimmedName])]
                   acked == Emit(pushed, [ev |-> "callback", to |-> s, ok |-> TRUE,
                                          name |-> trimmedName])
               IN Commit(BroadcastAssignments(BroadcastPlayerList(acked, code), code))
            /\ sock' = [sock EXCEPT ![s].code = code, ![s].role = "player",
                                    ![s].name = trimmedName]

\* ------------------------------------------------------------ privileged requests
\* a check that looks at the room only
NotHostOfRoomAnyRole(code, role) == ~HasRoom(code)

\* !code || !rooms[code] || role !== 'host'
NotHostOfRoom(code, role) == ~HasRoom(code) \/ role # "host"

\* ------------------------------------------------------------ claim-character
\* a claim that never releases
ClaimedNoRelease(assignments, character, name) ==
    IF ~Truthy(Asg(assignments, character))
    THEN SetAsg(assignments, character, name)
    ELSE assignments

\* the toggle of the claim-character handler
Claimed(assignments, character, name) ==
    IF Asg(assignments, character) = name
    THEN SetAsg(assignments, character, Null)
    ELSE IF ~Truthy(Asg(assignments, character))
         THEN SetAsg(assignments, character, name)
         ELSE assignments

ClaimCharacter(s, character) ==
    /\ Live(s)
    /\ lastOp' = [Op("claim-character", s) EXCEPT !.character = character]
    /\ UNCHANGED sock
    /\ LET code == sock[s].code IN
       IF ~HasRoom(code) THEN Commit(Start)
       ELSE IF rooms[code].state # "lobby" THEN Commit(Start)
       ELSE IF ~CharIn(character, rooms[code].assignments) THEN Commit(Start)
       ELSE Commit(BroadcastAssignments(
                [Start EXCEPT !.rooms[code].assignments =
                    Claimed(@, character, sock[s].name)], code))

\* ------------------------------------------------------------ force-assign
ValidTarget(room, toPlayer) ==
    \/ toPlayer = room.hostName
    \/ \E i \in DOMAIN room.players : room.players[i].name = toPlayer

ForceAssign(s, character, toPlayer) ==
    /\ Live(s)
    /\ lastOp' = [Op("force-assign", s) EXCEPT !.character = character,
                                               !.toPlayer = toPlayer]
    /\ UNCHANGED sock
    /\ LET code == sock[s].code IN
       IF NotHostOfRoom(code, sock[s].role) THEN Commit(Start)
       ELSE IF ~CharIn(character, rooms[code].assignments) THEN Commit(Start)
       ELSE IF toPlayer # Null /\ ~ValidTarget(rooms[code], toPlayer) THEN Commit(Start)
       ELSE LET set == [Start EXCEPT !.rooms[code].assignments =
                           SetAsg(@, character,
                                  IF Truthy(toPlayer) THEN toPlayer ELSE Null)]
                told == BroadcastAssignments(set, code)
            IN Commit(IF rooms[code].state = "performance"
                      THEN SendCurrentBeat(told, code) ELSE told)

\* ------------------------------------------------------------ boot-player
\* room.players.find((p) => p.name === playerName): the first match, or 0
FindPlayer(players, playerName) ==
    IF \E i \in DOMAIN players : players[i].name = playerName
    THEN CHOOSE i \in DOMAIN players :
            /\ players[i].name = playerName
            /\ \A j \in DOMAIN players : players[j].name = playerName => i <= j
    ELSE 0

\* room.players.filter(keep)
RECURSIVE FilterPlayers(_, _, _)
FilterPlayers(players, field, value) ==
    IF players = <<>> THEN <<>>
    ELSE IF Head(players)[field] # value
         THEN <<Head(players)>> \o FilterPlayers(Tail(players), field, value)
         ELSE FilterPlayers(Tail(players), field, value)

\* Object.keys(room.assignments).forEach: release what `name` holds
Released(assignments, name) ==
    [c \in DOMAIN assignments |-> IF assignments[c] = name THEN Null ELSE assignments[c]]

\* the hand-over of the active beat's character to the host
HandOver(room, playerName) ==
    LET beat == Beats(room)[room.currentBeat + 1] IN
    IF beat.type = "dialogue" /\ Asg(room.assignments, beat.character) = playerName
    THEN SetAsg(room.assignments, beat.character, room.hostName)
    ELSE room.assignments

BootPlayer(s, playerName) ==
    /\ Live(s)
    /\ lastOp' = Op("boot-player", s)
    /\ UNCHANGED sock
    /\ LET code == sock[s].code IN
       IF NotHostOfRoom(code, sock[s].role) THEN Commit(Start)
       ELSE LET room == rooms[code]
                target == FindPlayer(room.players, playerName)
            IN
            IF target = 0 THEN Commit(Start)
            ELSE IF room.state = "performance" /\ room.currentBeat >= Len(Beats(room))
            THEN Commit([Start EXCEPT !.crashed = TRUE])   \* beat.type throws
            ELSE LET handed == IF room.state = "performance"
                               THEN HandOver(room, playerName)
                               ELSE room.assignments
                     gone == [Start EXCEPT
                                 !.rooms[code].assignments = Released(handed, playerName),
                                 !.rooms[code].players =
                                     FilterPlayers(room.players, "name", playerName)]
                     kicked == IF sock[room.players[target].id].status = "connected"
                               THEN Emit(gone, [ev |-> "kicked",
                                                to |-> room.players[target].id])
                               ELSE gone
                     told == BroadcastAssignments(BroadcastPlayerList(kicked, code), code)
                 IN Commit(IF room.state = "performance"
                           THEN SendCurrentBeat(told, code) ELSE told)

\* ------------------------------------------------------------ start-performance
\* what the handler asks of the room before it starts it
StartAllowed(room) == AllCharactersAssigned(room)

StartPerformance(s) ==
    /\ Live(s)
    /\ lastOp' = Op("start-performance", s)
    /\ UNCHANGED sock
    /\ LET code == sock[s].code IN
       IF NotHostOfRoom(code, sock[s].role) THEN Commit(Start)
       ELSE IF ~StartAllowed(rooms[code]) THEN Commit(Start)
       ELSE LET started == [Start EXCEPT !.rooms[code].state = "performance",
                                         !.rooms[code].currentBeat = 0]
                told == Emit(started, [ev |-> "performance-started", code |-> code])
            IN Commit(SendCurrentBeat(told, code))

\* ------------------------------------------------------------ beat-done
\* a gate that lets any caller through on a dialogue beat
MayAdvanceAnyone(room, name, role) ==
    Beats(room)[room.currentBeat + 1].type = "dialogue"

\* the beat is a dialogue beat and the caller is its active player or the host
MayAdvance(room, name, role) ==
    LET beat == Beats(room)[room.currentBeat + 1] IN
    /\ beat.type = "dialogue"
    /\ ~(name # Asg(room.assignments, beat.character) /\ role # "host")

BeatDone(s) ==
    /\ Live(s)
    /\ lastOp' = Op("beat-done", s)
    /\ UNCHANGED sock
    /\ LET code == sock[s].code
           m == IF ~HasRoom(code) THEN Start
                ELSE IF rooms[code].state # "performance" THEN Start
                ELSE IF rooms[code].currentBeat >= Len(Beats(rooms[code]))
                THEN [Start EXCEPT !.crashed = TRUE]   \* beat.type throws
                ELSE IF ~MayAdvance(rooms[code], sock[s].name, sock[s].role) THEN Start
                ELSE AdvanceBeat(Start, code)
       IN Commit(m)

\* ------------------------------------------------------------ disconnect
Disconnect(s) ==
    /\ Live(s)
    /\ lastOp' = Op("disconnect", s)
    /\ sock' = [sock EXCEPT ![s] = [NoData EXCEPT !.status = "gone"]]
    /\ LET code == sock[s].code IN
       IF ~HasRoom(code) THEN Commit(Start)
       ELSE IF sock[s].role = "host"
       THEN Commit([Emit(Start, [ev |-> "host-left", code |-> code])
                       EXCEPT !.rooms[code] = NoRoom])
       ELSE LET left == [Start EXCEPT
                            !.rooms[code].players = FilterPlayers(@, "id", s),
                            !.rooms[code].assignments = Released(@, sock[s].name)]
            IN Commit(BroadcastAssignments(BroadcastPlayerList(left, code), code))

\* ------------------------------------------------------------ setTimeout callback
\* timers of one delay fire in the order they were set
FireTimer ==
    /\ ~crashed
    /\ timers # <<>>
    /\ lastOp' = Op("timer", 0)
    /\ UNCHANGED sock
    /\ LET popped == Mem(rooms, Tail(timers), <<>>, FALSE)
           m == IF TimerGuard(popped, Head(timers))
                THEN AdvanceBeat(popped, Head(timers).code)
                ELSE popped
       IN Commit(m)

\* ------------------------------------------------------------ specification
InitWith(codes) ==
    /\ rooms = [c \in codes |-> NoRoom]
    /\ sock = [s \in Conns |-> NoData]
    /\ timers = <<>>
    /\ out = <<>>
    /\ lastOp = [op |-> "listen", conn |-> 0, character |-> "-", name |-> Undefined,
                 toPlayer |-> Undefined, scriptIndex |-> -1, seq |-> 0]
    /\ crashed = FALSE

Init == InitWith(OneCode)

Next ==
    \/ \E s \in Conns : Connect(s)
    \/ \E s \in Conns, name \in NameInputs, scriptIndex \in ScriptInputs :
          CreateRoom(s, name, scriptIndex)
    \/ \E s \in Conns, code \in Codes, name \in NameInputs : JoinRoom(s, code, name)
    \/ \E s \in Conns, character \in CharInputs : ClaimCharacter(s, character)
    \/ \E s \in Conns, character \in CharInputs, toPlayer \in TargetInputs :
          ForceAssign(s, character, toPlayer)
    \/ \E s \in Conns, playerName \in Names : BootPlayer(s, playerName)
    \/ \E s \in Conns : StartPerformance(s)
    \/ \E s \in Conns : BeatDone(s)
    \/ \E s \in Conns : Disconnect(s)
    \/ FireTimer

Spec == Init /\ [][Next]_vars

\* the server under requests that name characters of the first script only;
\* a due setTimeout callback is run by the event loop
FairNext ==
    \/ \E s \in Conns : Connect(s)
    \/ \E s \in Conns, name \in NameInputs : CreateRoom(s, name, 0)
    \/ \E s \in Conns, code \in Codes, name \in NameInputs : JoinRoom(s, code, name)
    \/ \E s \in Conns, character \in CastInputs : ClaimCharacter(s, character)
    \/ \E s \in Conns, character \in CastInputs : ForceAssign(s, character, Null)
    \/ \E s \in Conns, playerName \in Names : BootPlayer(s, playerName)
    \/ \E s \in Conns : StartPerformance(s)
    \/ \E s \in Conns : BeatDone(s)
    \/ \E s \in Conns : Disconnect(s)
    \/ FireTimer

FairSpec == Init /\ [][FairNext]_vars /\ WF_vars(FireTimer)

\* the lobby under requests that also name a property every object inherits
KeyNext ==
    \/ \E s \in Conns : Connect(s)
    \/ \E s \in Conns, name \in NameInputs, scriptIndex \in ScriptInputs :
          CreateRoom(s, name, scriptIndex)
    \/ \E s \in Conns, code \in Codes, name \in NameInputs : JoinRoom(s, code, name)
    \/ \E s \in Conns, character \in KeyInputs : ClaimCharacter(s, character)
    \/ \E s \in Conns, character \in KeyInputs, toPlayer \in TargetInputs :
          ForceAssign(s, character, toPlayer)
    \/ \E s \in Conns, playerName \in Names : BootPlayer(s, playerName)
    \/ \E s \in Conns : Disconnect(s)

KeySpec == Init /\ [][KeyNext]_vars

\* hosts opening and casting rooms on a server whose code generator has two
\* codes
RegistryInit == InitWith(CodeUniverse)

RegistryNext ==
    \/ \E s \in Conns : Connect(s)
    \/ \E s \in Conns, name \in NameInputs, scriptIndex \in ScriptInputs :
          CreateRoom(s, name, scriptIndex)
    \/ \E s \in Conns, character \in CharInputs : ClaimCharacter(s, character)
    \/ \E s \in Conns : Disconnect(s)

RegistrySpec == RegistryInit /\ [][RegistryNext]_vars

\* connections that open, join and leave rooms of the first script on a server
\* whose code generator has two codes
MemberNext ==
    \/ \E s \in Conns : Connect(s)
    \/ \E s \in Conns, name \in NameInputs : CreateRoom(s, name, 0)
    \/ \E s \in Conns, code \in Codes, name \in NameInputs : JoinRoom(s, code, name)
    \/ \E s \in Conns : Disconnect(s)

MemberSpec == RegistryInit /\ [][MemberNext]_vars

\* ============================================================ properties
Emitted(o, ev, code) == \E i \in DOMAIN o : o[i].ev = ev /\ o[i].code = code

Served(op, s) == lastOp'.op = op /\ lastOp'.conn = s

CurrentBeatOf(room) == Beats(room)[room.currentBeat + 1]

\* some character of the room's script has no owner
SomeUnassigned(room) ==
    \E c \in Range(ScriptOf(room).characters) : room.assignments[c] = Null

\* ------------------------------------------------------------ C1
\* C1: once a room's state is 'ended' it stays 'ended' for as long as the room
\* is registered, whatever request or timer comes next.
C1_EndedIsTerminal ==
    [][\A c \in Codes :
          rooms[c].state = "ended" =>
              rooms'[c] = NoRoom \/ rooms'[c].state = "ended"]_vars

\* ------------------------------------------------------------ C2
\* C2: start-performance issued by the host of a room that is already in
\* performance leaves state and currentBeat as they are and emits neither
\* performance-started nor beat.
C2_StartOnlyFromLobby ==
    [][\A s \in Conns :
          (/\ Served("start-performance", s)
           /\ HasRoom(sock[s].code)
           /\ sock[s].role = "host"
           /\ rooms[sock[s].code].state = "performance")
          => /\ rooms'[sock[s].code].state = "performance"
             /\ rooms'[sock[s].code].currentBeat = rooms[sock[s].code].currentBeat
             /\ ~Emitted(out', "performance-started", sock[s].code)
             /\ ~Emitted(out', "beat", sock[s].code)]_vars

\* ------------------------------------------------------------ C3
\* C3: start-performance on a lobby room with an unassigned character changes
\* nothing (state lobby, currentBeat 0, no timer, no performance-started, no
\* beat); and any step that takes a room from lobby to performance starts
\* from a room in which every character has an owner.
C3_StartNeedsFullCast ==
    [][/\ \A s \in Conns :
            (/\ Served("start-performance", s)
             /\ HasRoom(sock[s].code)
             /\ rooms[sock[s].code].state = "lobby"
             /\ SomeUnassigned(rooms[sock[s].code]))
            => /\ rooms' = rooms
               /\ rooms'[sock[s].code].state = "lobby"
               /\ rooms'[sock[s].code].currentBeat = 0
               /\ timers' = timers
               /\ ~Emitted(out', "performance-started", sock[s].code)
               /\ ~Emitted(out', "beat", sock[s].code)
       /\ \A c \in Codes :
            (rooms[c].state = "lobby" /\ rooms'[c].state = "performance")
            => ~SomeUnassigned(rooms[c])]_vars

\* the host asked to start a two-character lobby with one character cast
C3_Witness ==
    /\ lastOp.op = "start-performance"
    /\ sock[lastOp.conn].role = "host"
    /\ HasRoom(sock[lastOp.conn].code)
    /\ LET room == rooms[sock[lastOp.conn].code] IN
       /\ room.script = 0
       /\ room.state = "lobby"
       /\ room.currentBeat = 0
       /\ Truthy(room.assignments["Lead"])
       /\ room.assignments["Side"] = Null
    /\ out = <<>>

\* ------------------------------------------------------------ C4
\* C4: a registered room in performance has 0 <= currentBeat < the number of
\* beats of its script.
C4_BeatInRange ==
    \A c \in Codes :
        rooms[c].state = "performance" =>
            /\ 0 <= rooms[c].currentBeat
            /\ rooms[c].currentBeat < Len(Beats(rooms[c]))

\* ------------------------------------------------------------ C5
\* C5: every registered room was created by a connection that is still
\* connected.
C5_RoomHasLiveHost ==
    \A c \in Codes :
        HasRoom(c) => sock[rooms[c].hostId].status = "connected"

\* ------------------------------------------------------------ C6
\* the next timer to fire was set for a room that has since been torn down
StaleTimerNext ==
    /\ timers # <<>>
    /\ \/ rooms[Head(timers).code] = NoRoom
       \/ rooms[Head(timers).code].hostId # Head(timers).setFor

\* C6: a timer set for a room that was torn down before it fires changes no
\* room of the registry when it fires, not even a later room with the same code.
C6_StaleTimerIsNoOp ==
    [][(lastOp'.op = "timer" /\ StaleTimerNext) => rooms' = rooms]_vars

\* ------------------------------------------------------------ C7
\* the last request served was a claim by s on ch that took the character
JustClaimed(s, ch) ==
    /\ lastOp.op = "claim-character" /\ lastOp.conn = s /\ lastOp.character = ch
    /\ HasRoom(sock[s].code)
    /\ rooms[sock[s].code].state = "lobby"
    /\ ch \in DOMAIN rooms[sock[s].code].assignments
    /\ rooms[sock[s].code].assignments[ch] = sock[s].name

\* the last request served was a claim by s on ch that released the character
JustReleased(s, ch) ==
    /\ lastOp.op = "claim-character" /\ lastOp.conn = s /\ lastOp.character = ch
    /\ HasRoom(sock[s].code)
    /\ rooms[sock[s].code].state = "lobby"
    /\ ch \in DOMAIN rooms[sock[s].code].assignments
    /\ rooms[sock[s].code].assignments[ch] = Null
    /\ out # <<>>

ClaimServed(s, ch) == Served("claim-character", s) /\ lastOp'.character = ch

\* C7: in lobby, once participant A has claimed a character, a claim-character
\* request on it by another participant B of the same room (another
\* connection, whatever its display name) changes no assignment.
C7_ClaimNeverTakesFromAnother ==
    [][\A a \in Conns, b \in Conns, ch \in CharInputs :
          (/\ a # b
           /\ JustClaimed(a, ch)
           /\ sock[b].code = sock[a].code
           /\ ClaimServed(b, ch))
          => rooms'[sock[a].code].assignments = rooms[sock[a].code].assignments]_vars

\* ------------------------------------------------------------ C8
\* C8 as stated: after a player has claimed an unowned character, a second
\* claim request by that player on it is a no-op (still theirs); and after a
\* release, a further request on the unowned character leaves it unassigned.
C8_ClaimIdempotent ==
    [][\A s \in Conns, ch \in CharInputs :
          /\ (JustClaimed(s, ch) /\ ClaimServed(s, ch))
             => /\ rooms' = rooms
                /\ rooms'[sock[s].code].assignments[ch] = sock[s].name
          /\ (JustReleased(s, ch) /\ ClaimServed(s, ch))
             => /\ rooms' = rooms
                /\ rooms'[sock[s].code].assignments[ch] = Null]_vars

\* C8 amended: claim-character is a toggle for the same player in lobby: after
\* a player has claimed an unowned character, a second claim request by that
\* player on it releases it (unassigned), and a further request on the now
\* unowned character claims it again; no other assignment and nothing else of
\* the room changes.
C8_ClaimToggles ==
    [][\A s \in Conns, ch \in CharInputs :
          /\ (JustClaimed(s, ch) /\ ClaimServed(s, ch))
             => rooms' = [rooms EXCEPT ![sock[s].code].assignments[ch] = Null]
          /\ (JustReleased(s, ch) /\ ClaimServed(s, ch))
             => rooms' = [rooms EXCEPT ![sock[s].code].assignments[ch] = sock[s].name]]_vars

\* a player's second request on the character it held has released it
C8_Witness ==
    \E s \in Conns :
        /\ sock[s].status = "connected"
        /\ sock[s].role = "player"
        /\ JustReleased(s, "Lead")
        /\ Emitted(out, "assignments", sock[s].code)

\* ------------------------------------------------------------ C9
\* the conditions under which beat-done advances, read off the room
BeatDoneHonoured(s) ==
    /\ HasRoom(sock[s].code)
    /\ LET room == rooms[sock[s].code] IN
       /\ room.state = "performance"
       /\ room.currentBeat < Len(Beats(room))
       /\ CurrentBeatOf(room).type = "dialogue"
       /\ \/ sock[s].role = "host"
          \/ sock[s].name = room.assignments[CurrentBeatOf(room).character]

\* C9: beat-done adds exactly 1 to currentBeat when the room is in
\* performance, the current beat is a dialogue beat and the caller is the host
\* or bears the name the beat's character is assigned to; in every other case
\* it changes no room.
C9_BeatDoneGate ==
    [][\A s \in Conns :
          Served("beat-done", s) =>
              IF BeatDoneHonoured(s)
              THEN /\ rooms'[sock[s].code].currentBeat =
                          rooms[sock[s].code].currentBeat + 1
                   /\ rooms'[sock[s].code].state \in {"performance", "ended"}
                   /\ \A c \in Codes \ {sock[s].code} : rooms'[c] = rooms[c]
              ELSE rooms' = rooms]_vars

\* a player who does not hold the current dialogue beat asked, and was ignored
C9_Witness ==
    /\ lastOp.op = "beat-done"
    /\ sock[lastOp.conn].role = "player"
    /\ HasRoom(sock[lastOp.conn].code)
    /\ LET room == rooms[sock[lastOp.conn].code] IN
       /\ room.state = "performance"
       /\ room.currentBeat < Len(Beats(room))
       /\ CurrentBeatOf(room).type = "dialogue"
       /\ Truthy(room.assignments[CurrentBeatOf(room).character])
       /\ room.assignments[CurrentBeatOf(room).character] # sock[lastOp.conn].name
       /\ \E i \in DOMAIN room.players : room.players[i].id = lastOp.conn
    /\ out = <<>>

\* ------------------------------------------------------------ C10
\* C10: a room turns 'ended' in exactly the steps that advance currentBeat
\* past the last beat index, performance-ended is emitted in exactly those
\* steps, and while an ended room stays registered no beat and no second
\* performance-ended is emitted for it.
C10_EndsOnceAndStaysSilent ==
    [][\A c \in Codes :
          /\ (rooms[c].state # "ended" /\ rooms'[c].state = "ended")
             <=> Emitted(out', "performance-ended", c)
          /\ (rooms[c].state # "ended" /\ rooms'[c].state = "ended")
             => /\ rooms[c].state = "performance"
                /\ rooms'[c].currentBeat = rooms[c].currentBeat + 1
                /\ rooms'[c].currentBeat = Len(Beats(rooms[c]))
          /\ rooms[c].state = "ended"
             => /\ ~Emitted(out', "beat", c)
                /\ ~Emitted(out', "performance-ended", c)]_vars

\* ------------------------------------------------------------ C11
\* the step served boot-player for host s and removed every player named n
BootedByName(s, n) ==
    /\ Served("boot-player", s)
    /\ HasRoom(sock[s].code)
    /\ sock[s].role = "host"
    /\ \E i \in DOMAIN rooms[sock[s].code].players :
          rooms[sock[s].code].players[i].name = n
    /\ \A i \in DOMAIN rooms'[sock[s].code].players :
          rooms'[sock[s].code].players[i].name # n

\* C11: during performance, when the host boots the player whose name holds
\* the character of the current dialogue beat, that character is assigned to
\* the host's name right after (never unassigned), whatever the two display
\* names are, and every other character the booted name held is unassigned.
C11_BootHandsBeatToHost ==
    [][\A s \in Conns, n \in Names :
          (/\ BootedByName(s, n)
           /\ rooms[sock[s].code].state = "performance"
           /\ rooms[sock[s].code].currentBeat < Len(Beats(rooms[sock[s].code]))
           /\ CurrentBeatOf(rooms[sock[s].code]).type = "dialogue"
           /\ rooms[sock[s].code].assignments[
                  CurrentBeatOf(rooms[sock[s].code]).character] = n)
          => LET room == rooms[sock[s].code]
                 after == rooms'[sock[s].code]
                 active == CurrentBeatOf(room).character
             IN /\ after.assignments[active] = room.hostName
                /\ after.assignments[active] # Null
                /\ \A c \in DOMAIN room.assignments \ {active} :
                      room.assignments[c] = n => after.assignments[c] = Null]_vars

\* ------------------------------------------------------------ C12
\* (script, beat index) of every direction beat of the catalogue
DirectionBeats ==
    {d \in (0..(Len(preparedScripts) - 1)) \X (0..1) :
        /\ d[2] < Len(preparedScripts[d[1] + 1].beats)
        /\ preparedScripts[d[1] + 1].beats[d[2] + 1].type # "dialogue"}

\* room c is in performance on direction beat d
OnDirection(c, d) ==
    /\ HasRoom(c)
    /\ rooms[c].state = "performance"
    /\ rooms[c].script = d[1]
    /\ rooms[c].currentBeat = d[2]

\* C12: a room in performance on a direction beat eventually is no longer on
\* that beat in that state, given that pending timers fire; and a timer that
\* fires while its room is still on its beat in performance adds exactly 1 to
\* currentBeat.
C12_AutoAdvance ==
    /\ \A c \in OneCode, d \in DirectionBeats :
          OnDirection(c, d) ~> ~OnDirection(c, d)
    /\ [][(/\ lastOp'.op = "timer"
           /\ timers # <<>>
           /\ HasRoom(Head(timers).code)
           /\ rooms[Head(timers).code].state = "performance"
           /\ rooms[Head(timers).code].currentBeat = Head(timers).beatIndex)
          => rooms'[Head(timers).code].currentBeat =
                 rooms[Head(timers).code].currentBeat + 1]_vars

\* a room waits on a direction beat with its timer pending
C12_Witness ==
    \E c \in Codes :
        /\ OnDirection(c, <<0, 0>>)
        /\ \E i \in DOMAIN timers :
              timers[i].code = c /\ timers[i].beatIndex = 0
                  /\ timers[i].setFor = rooms[c].hostId

\* ------------------------------------------------------------ C13
\* C13: a join-room request aimed at a room in performance or ended (the only
\* code of the registry, so the request names it) is answered with an error to
\* the requester, leaves the room's players and assignments unchanged and
\* leaves the requester's connection data as it was.
C13_JoinAfterStartFails ==
    [][\A s \in Conns, c \in Codes :
          (/\ Codes = {c}
           /\ HasRoom(c)
           /\ rooms[c].state \in {"performance", "ended"}
           /\ Served("join-room", s))
          => /\ \E i \in DOMAIN out' :
                   /\ out'[i].ev = "callback"
                   /\ out'[i].to = s
                   /\ "error" \in DOMAIN out'[i]
             /\ rooms'[c].players = rooms[c].players
             /\ rooms'[c].assignments = rooms[c].assignments
             /\ sock'[s] = sock[s]]_vars

\* ------------------------------------------------------------ C14
\* C14: in every room, the keys of assignments are exactly the character names
\* of the room's script.
C14_KeysAreTheCast ==
    \A c \in Codes :
        HasRoom(c) =>
            DOMAIN rooms[c].assignments = Range(ScriptOf(rooms[c]).characters)

\* ------------------------------------------------------------ C15
\* C15: every create-room request with a non-empty trimmed name registers a
\* room under a code that was free just before, leaves every other entry of
\* the registry as it was, and the new room is in lobby at beat 0 with no
\* players and with every character of the selected script unassigned; the
\* selected script is the one at scriptIndex, or the first one when scriptIndex
\* is out of range.
C15_CreateRegistersFreshRoom ==
    [][\A s \in Conns :
          (Served("create-room", s) /\ Truthy(TrimmedName(lastOp'.name)))
          => \E code \in Codes :
                LET k == IF lastOp'.scriptIndex \in 0..(Len(preparedScripts) - 1)
                         THEN lastOp'.scriptIndex ELSE 0
                    cast == Range(preparedScripts[k + 1].characters)
                IN /\ rooms[code] = NoRoom
                   /\ rooms'[code] # NoRoom
                   /\ \A c \in Codes \ {code} : rooms'[c] = rooms[c]
                   /\ rooms'[code].state = "lobby"
                   /\ rooms'[code].currentBeat = 0
                   /\ rooms'[code].players = <<>>
                   /\ rooms'[code].script = k
                   /\ DOMAIN rooms'[code].assignments = cast
                   /\ \A ch \in cast : rooms'[code].assignments[ch] = Null]_vars

\* a room has just been created with an out-of-range scriptIndex next to a
\* room that already has a claimed character
C15_Witness ==
    /\ lastOp.op = "create-room"
    /\ lastOp.scriptIndex = 2
    /\ HasRoom(sock[lastOp.conn].code)
    /\ rooms[sock[lastOp.conn].code].hostId = lastOp.conn
    /\ rooms[sock[lastOp.conn].code].script = 0
    /\ \A ch \in DOMAIN rooms[sock[lastOp.conn].code].assignments :
          rooms[sock[lastOp.conn].code].assignments[ch] = Null
    /\ \E c \in Codes \ {sock[lastOp.conn].code} :
          /\ HasRoom(c)
          /\ \E ch \in DOMAIN rooms[c].assignments : rooms[c].assignments[ch] # Null

\* ------------------------------------------------------------ C16
Privileged == {"force-assign", "boot-player", "start-performance"}

\* C16: a force-assign, boot-player or start-performance request from a
\* connection whose role is not host changes no room (state, currentBeat,
\* assignments, players) and emits nothing to anyone.
C16_NonHostIsDropped ==
    [][\A s \in Conns :
          (/\ lastOp'.op \in Privileged
           /\ lastOp'.conn = s
           /\ sock[s].role # "host")
          => (rooms' = rooms /\ out' = <<>>)]_vars

\* a player of a fully cast lobby room has just asked to start it
C16_Witness ==
    /\ lastOp.op = "start-performance"
    /\ sock[lastOp.conn].role = "player"
    /\ HasRoom(sock[lastOp.conn].code)
    /\ rooms[sock[lastOp.conn].code].state = "lobby"
    /\ AllCharactersAssigned(rooms[sock[lastOp.conn].code])

\* ------------------------------------------------------------ C17
\* C17: a change of a room's currentBeat made by a timer or by beat-done is an
\* increment by exactly 1, and a timer that fires after its room has left the
\* beat it was scheduled for changes no room; so of the timers scheduled for
\* one occurrence of a beat at most one advances the room.
C17_NoDoubleAdvance ==
    /\ [][\A c \in Codes :
             (/\ lastOp'.op \in {"timer", "beat-done"}
              /\ HasRoom(c)
              /\ rooms'[c] # NoRoom
              /\ rooms'[c].currentBeat # rooms[c].currentBeat)
             => rooms'[c].currentBeat = rooms[c].currentBeat + 1]_vars
    /\ [][(lastOp'.op = "timer" /\ timers # <<>> /\ Head(timers).stale)
             => rooms' = rooms]_vars

\* ------------------------------------------------------------ C18
\* C18: a claim-character request served for a connection of a room toggles in
\* lobby: on a character of the script held by the caller's name the
\* assignment becomes unassigned, on an unassigned one it becomes the caller's
\* name, and no other assignment changes; a second request right after a claim
\* returns the character to unassigned; in performance or ended, or for a name
\* that is not a character of the script, assignments are unchanged.
C18_ClaimIsToggle ==
    [][\A s \in Conns, ch \in CharInputs \cup KeyInputs :
          (ClaimServed(s, ch) /\ HasRoom(sock[s].code))
          => LET room == rooms[sock[s].code]
                 after == rooms'[sock[s].code].assignments
                 known == ch \in Range(ScriptOf(room).characters)
             IN IF room.state = "lobby" /\ known /\ ch \in DOMAIN room.assignments
                THEN /\ room.assignments[ch] = sock[s].name
                        => after = [room.assignments EXCEPT ![ch] = Null]
                     /\ room.assignments[ch] = Null
                        => after = [room.assignments EXCEPT ![ch] = sock[s].name]
                     /\ room.assignments[ch] \notin {sock[s].name, Null}
                        => after = room.assignments
                     /\ JustClaimed(s, ch) => after[ch] = Null
                ELSE after = room.assignments]_vars

\* ------------------------------------------------------------ C19
\* C19: a force-assign request served for the host of a room changes
\* assignments only in lobby or performance, for a character of the room and a
\* target that is null, the host's name or the name of a listed player; it
\* then sets that character to the target, whoever held it, and no other
\* assignment; with another target, an unknown character or in state ended,
\* assignments are unchanged.
C19_ForceAssignEffect ==
    [][\A s \in Conns :
          (/\ Served("force-assign", s)
           /\ HasRoom(sock[s].code)
           /\ sock[s].role = "host")
          => LET room == rooms[sock[s].code]
                 after == rooms'[sock[s].code].assignments
                 ch == lastOp'.character
                 target == lastOp'.toPlayer
                 valid == \/ target = Null
                          \/ target = room.hostName
                          \/ \E i \in DOMAIN room.players : room.players[i].name = target
             IN IF /\ room.state \in {"lobby", "performance"}
                   /\ ch \in DOMAIN room.assignments
                   /\ valid
                THEN after = [room.assignments EXCEPT ![ch] = target]
                ELSE after = room.assignments]_vars

\* ------------------------------------------------------------ C20
\* C20: when a connection with role player disconnects from its room, its
\* entry leaves the player list and the entries of the other connections stay
\* as they were; state and currentBeat are unchanged; a character that another
\* connection of the room has just claimed, or that is held under another
\* name, keeps its assignment, and the other characters held under the leaving
\* name become unassigned; no beat is sent and no timer is set.
C20_PlayerDisconnectFrame ==
    [][\A s \in Conns :
          (/\ Served("disconnect", s)
           /\ sock[s].role = "player"
           /\ HasRoom(sock[s].code))
          => LET code == sock[s].code
                 room == rooms[code]
                 after == rooms'[code]
                 heldByOther(ch) ==
                     \E h \in Conns \ {s} : sock[h].code = code /\ JustClaimed(h, ch)
             IN /\ after # NoRoom
                /\ after.players = FilterPlayers(room.players, "id", s)
                /\ after.state = room.state
                /\ after.currentBeat = room.currentBeat
                /\ DOMAIN after.assignments = DOMAIN room.assignments
                /\ \A ch \in DOMAIN room.assignments :
                      after.assignments[ch] =
                          IF room.assignments[ch] = sock[s].name /\ ~heldByOther(ch)
                          THEN Null ELSE room.assignments[ch]
                /\ timers' = timers
                /\ ~\E i \in DOMAIN out' : out'[i].ev = "beat"]_vars

\* ------------------------------------------------------------ C21
\* the beat notifications of o for room c, in emission order
RECURSIVE BeatsSent(_, _)
BeatsSent(o, c) ==
    IF o = <<>> THEN <<>>
    ELSE IF Head(o).ev = "beat" /\ Head(o).code = c
         THEN <<Head(o)>> \o BeatsSent(Tail(o), c)
         ELSE BeatsSent(Tail(o), c)

\* what a beat notification of room must carry
BeatFaithful(e, room) ==
    /\ room # NoRoom
    /\ e.index = room.currentBeat
    /\ e.index < Len(Beats(room))
    /\ e.total = Len(Beats(room))
    /\ e.beat = CurrentBeatOf(room)
    /\ e.activePlayer = IF e.beat.type = "dialogue"
                        THEN room.assignments[e.beat.character]
                        ELSE Null

\* C21: every beat notification carries the room's currentBeat, the beat count
\* of its script and, as activePlayer, the assignee of the beat's character on
\* a dialogue beat and null otherwise; a start-performance that the handler
\* completes sends a beat notification, for beat 0; a force-assign or
\* boot-player that takes effect during performance sends a beat notification
\* for the unchanged currentBeat with the new assignment.
C21_BeatNotification ==
    [][\A c \in Codes :
          LET sent == BeatsSent(out', c) IN
          /\ \A i \in DOMAIN sent : BeatFaithful(sent[i], rooms'[c])
          /\ \A s \in Conns :
                (/\ sock[s].code = c /\ sock[s].role = "host" /\ HasRoom(c)
                 /\ Served("start-performance", s)
                 /\ AllCharactersAssigned(rooms[c])
                 /\ ~crashed')
                => (sent # <<>> /\ sent[1].index = 0)
          /\ \A s \in Conns :
                (/\ sock[s].code = c /\ sock[s].role = "host" /\ HasRoom(c)
                 /\ rooms[c].state = "performance"
                 /\ \/ /\ Served("force-assign", s)
                       /\ lastOp'.character \in DOMAIN rooms[c].assignments
                       /\ \/ lastOp'.toPlayer = Null
                          \/ lastOp'.toPlayer = rooms[c].hostName
                          \/ \E i \in DOMAIN rooms[c].players :
                                rooms[c].players[i].name = lastOp'.toPlayer
                    \/ /\ Served("boot-player", s)
                       /\ rooms'[c].players # rooms[c].players)
                => /\ sent # <<>>
                   /\ rooms'[c].currentBeat = rooms[c].currentBeat
                   /\ sent[Len(sent)].index = rooms[c].currentBeat]_vars

\* the host has just force-assigned the character of the current dialogue
\* beat to a player, and the beat sent names that player
C21_Witness ==
    /\ lastOp.op = "force-assign"
    /\ HasRoom(sock[lastOp.conn].code)
    /\ rooms[sock[lastOp.conn].code].state = "performance"
    /\ \E i \in DOMAIN out :
          /\ out[i].ev = "beat"
          /\ out[i].beat.type = "dialogue"
          /\ out[i].activePlayer = lastOp.toPlayer
          /\ out[i].activePlayer # Null
          /\ out[i].activePlayer # rooms[sock[lastOp.conn].code].hostName

\* ------------------------------------------------------------ C22
\* C22: in every room, each assignment that is not null is the host's name or
\* the display name of a player in the room's player list.
C22_OwnersArePresent ==
    \A c \in Codes :
        HasRoom(c) =>
            \A ch \in DOMAIN rooms[c].assignments :
                \/ rooms[c].assignments[ch] = Null
                \/ rooms[c].assignments[ch] = rooms[c].hostName
                \/ \E i \in DOMAIN rooms[c].players :
                      rooms[c].players[i].name = rooms[c].assignments[ch]

\* ------------------------------------------------------------ C23
\* C23: every entry of every room's player list carries the id of a connection
\* that is connected and whose session has that room's code and role player.
C23_MembersAreInSession ==
    \A c \in Codes :
        HasRoom(c) =>
            \A i \in DOMAIN rooms[c].players :
                /\ sock[rooms[c].players[i].id].status = "connected"
                /\ sock[rooms[c].players[i].id].code = c
                /\ sock[rooms[c].players[i].id].role = "player"

====
